---- MODULE Spec2Model ----
(***************************************************************************)
(* Model of the DVK load / index / sort engine (DvkHandler) and of the     *)
(* duplicate-id detector (same_ids) of Dvk-Archive-Python.                 *)
(*                                                                         *)
(* Python strings are sequences of one-character strings, Python lists     *)
(* are sequences, and a pathlib Path is the sequence of its components     *)
(* below the file-system root.  List positions are 0-based in the code;    *)
(* the model keeps the 0-based values (the contents of `sorted`, the       *)
(* marked positions of same_ids) and adds one where it indexes a sequence. *)
(***************************************************************************)
EXTENDS Integers, Sequences, FiniteSets, TLC

VARIABLES fs, dvks, sorted, paths, group_artists, last, ret, driver

vars == << fs, dvks, sorted, paths, group_artists, last, ret, driver >>

(***************************************************************************)
(* Bounds                                                                  *)
(***************************************************************************)
\* longest list of root directories handed to load_dvks / same_ids
MaxRoots == 2

(***************************************************************************)
(* Characters and strings                                                  *)
(***************************************************************************)
\* code points of the characters used by the titles, artists and times
Ord == [c \in {",", "/", "0", "1", "2", ":", "A", "Z", "a", "b", "d", "e",
               "m", "y", "z", "|"} |->
          CASE c = "," -> 44 [] c = "/" -> 47 [] c = "0" -> 48
            [] c = "1" -> 49 [] c = "2" -> 50 [] c = ":" -> 58
            [] c = "A" -> 65 [] c = "Z" -> 90 [] c = "a" -> 97
            [] c = "b" -> 98 [] c = "d" -> 100 [] c = "e" -> 101
            [] c = "m" -> 109 [] c = "y" -> 121 [] c = "z" -> 122
            [] c = "|" -> 124]

IsDigit(c) == Ord[c] >= 48 /\ Ord[c] <= 57

\* code point of the lower-case form of a character
LowerOrd(c) == IF Ord[c] >= 65 /\ Ord[c] <= 90 THEN Ord[c] + 32 ELSE Ord[c]

DigitValue(c) == Ord[c] - 48

Sign(n) == IF n < 0 THEN -1 ELSE IF n > 0 THEN 1 ELSE 0

\* a < b on code points, positionwise; a proper prefix is smaller
RECURSIVE LexCmp(_, _)
LexCmp(a, b) ==
  IF a = <<>> /\ b = <<>> THEN 0
  ELSE IF a = <<>> THEN -1
  ELSE IF b = <<>> THEN 1
  ELSE IF Ord[Head(a)] # Ord[Head(b)] THEN Sign(Ord[Head(a)] - Ord[Head(b)])
  ELSE LexCmp(Tail(a), Tail(b))

\* the same on the lower-case forms
RECURSIVE LexCmpLower(_, _)
LexCmpLower(a, b) ==
  IF a = <<>> /\ b = <<>> THEN 0
  ELSE IF a = <<>> THEN -1
  ELSE IF b = <<>> THEN 1
  ELSE IF LowerOrd(Head(a)) # LowerOrd(Head(b))
       THEN Sign(LowerOrd(Head(a)) - LowerOrd(Head(b)))
  ELSE LexCmpLower(Tail(a), Tail(b))

\* string_compare.compare_strings: lexical comparison, -1 / 0 / 1
compare_strings(a, b) == LexCmp(a, b)

\* length of the leading run of s whose characters are digits (d = TRUE)
\* or non-digits (d = FALSE)
RECURSIVE RunLen(_, _)
RunLen(s, d) ==
  IF s = <<>> \/ IsDigit(Head(s)) # d THEN 0 ELSE 1 + RunLen(Tail(s), d)

\* a string split into alternating runs of digits and non-digits
RECURSIVE Runs(_)
Runs(s) ==
  IF s = <<>> THEN <<>>
  ELSE LET n == RunLen(s, IsDigit(Head(s)))
       IN  <<SubSeq(s, 1, n)>> \o Runs(SubSeq(s, n + 1, Len(s)))

\* numeric value of a run of digits (leading zeros do not count)
RECURSIVE NumValue(_)
NumValue(r) ==
  IF r = <<>> THEN 0 ELSE 10 * NumValue(SubSeq(r, 1, Len(r) - 1)) + DigitValue(r[Len(r)])

\* two runs: both digit runs by value, otherwise case-insensitively
CompareRun(r1, r2) ==
  IF IsDigit(Head(r1)) /\ IsDigit(Head(r2))
  THEN Sign(NumValue(r1) - NumValue(r2))
  ELSE LexCmpLower(r1, r2)

RECURSIVE CompareRuns(_, _)
CompareRuns(a, b) ==
  IF a = <<>> /\ b = <<>> THEN 0
  ELSE IF a = <<>> THEN -1
  ELSE IF b = <<>> THEN 1
  ELSE IF CompareRun(Head(a), Head(b)) # 0 THEN CompareRun(Head(a), Head(b))
  ELSE CompareRuns(Tail(a), Tail(b))

\* string_compare.compare_alphanum: natural-alphanumeric comparison
compare_alphanum(a, b) == CompareRuns(Runs(a), Runs(b))

\* list_processing.list_to_string: the items joined by commas
RECURSIVE list_to_string(_)
list_to_string(lst) ==
  IF lst = <<>> THEN <<>>
  ELSE IF Len(lst) = 1 THEN Head(lst)
  ELSE Head(lst) \o <<",">> \o list_to_string(Tail(lst))

\* list_processing.clean_list: None entries and repeated entries removed,
\* first occurrences kept in order (the lists cleaned here hold no None)
RECURSIVE clean_list(_)
clean_list(lst) ==
  IF lst = <<>> THEN <<>>
  ELSE LET init == clean_list(SubSeq(lst, 1, Len(lst) - 1))
           x == lst[Len(lst)]
       IN  IF \E i \in 1..Len(init) : init[i] = x THEN init ELSE Append(init, x)

(***************************************************************************)
(* Paths and the file system                                               *)
(***************************************************************************)
\* the names that occur in the file system, in ascending string order
NameOrder == << "..", "a", "c", "dvk1.dvk", "dvk2.dvk", "dvk3.dvk",
                "file0", "missing", "noDVK.txt", "old.dvk", "sub", "sub2" >>

NameRank(n) == CHOOSE i \in 1..Len(NameOrder) : NameOrder[i] = n

\* the last four characters of a name: what str.endswith(".dvk") looks at
Suffix(n) ==
  CASE n \in {"dvk1.dvk", "dvk2.dvk", "dvk3.dvk", "old.dvk"} -> ".dvk"
    [] n = "noDVK.txt" -> ".txt"
    [] n = "file0" -> "ile0"
    [] n = "missing" -> "sing"
    [] n = "sub2" -> "sub2"
    [] OTHER -> n

\* pathlib ordering of two paths: component by component, as strings
RECURSIVE PathCmp(_, _)
PathCmp(p, q) ==
  IF p = <<>> /\ q = <<>> THEN 0
  ELSE IF p = <<>> THEN -1
  ELSE IF q = <<>> THEN 1
  ELSE IF Head(p) # Head(q) THEN Sign(NameRank(Head(p)) - NameRank(Head(q)))
  ELSE PathCmp(Tail(p), Tail(q))

\* the directories that exist, as resolved absolute paths: the layout of
\* the same_ids test (a directory with two sub-directories) and, beside
\* it, a directory that holds nothing but a sub-directory named "old.dvk"
Dirs == { <<>>, <<"a">>, <<"a", "sub">>, <<"a", "sub2">>,
          <<"c">>, <<"c", "old.dvk">> }

\* the record files: slot |-> directory and file name
SlotDir == << <<"a">>, <<"a", "sub">>, <<"a", "sub">> >>

SlotName == << "dvk1.dvk", "dvk2.dvk", "dvk3.dvk" >>

Slots == 1..Len(SlotName)

\* the files of a directory that are not records
OtherFiles(dir) ==
  IF dir = <<"a">> THEN {"file0"}
  ELSE IF dir = <<"a", "sub2">> THEN {"noDVK.txt"}
  ELSE {}

\* the operating system's resolution of a path below the existing
\* directory cur: ".." steps up, any other name must be a directory
RECURSIVE ResolveFrom(_, _)
ResolveFrom(cur, rest) ==
  IF rest = <<>> THEN [ok |-> TRUE, dir |-> cur]
  ELSE IF Head(rest) = ".."
       THEN ResolveFrom(IF cur = <<>> THEN cur ELSE SubSeq(cur, 1, Len(cur) - 1),
                        Tail(rest))
  ELSE IF Append(cur, Head(rest)) \in Dirs
       THEN ResolveFrom(Append(cur, Head(rest)), Tail(rest))
  ELSE [ok |-> FALSE, dir |-> <<>>]

Resolve(p) == ResolveFrom(<<>>, p)

\* sub-directory names of an existing directory
SubDirs(dir) ==
  { n \in {"a", "c", "old.dvk", "sub", "sub2"} : Append(dir, n) \in Dirs }

\* os.listdir: the names of the files and directories in a directory
listdir(p) ==
  LET d == Resolve(p).dir
  IN  SubDirs(d) \cup OtherFiles(d) \cup { SlotName[s] : s \in { t \in Slots : SlotDir[t] = d } }

\* a set of names as a list in ascending order
RECURSIVE NameList(_)
NameList(S) ==
  IF S = {} THEN <<>>
  ELSE LET n == CHOOSE x \in S : \A y \in S : NameRank(x) <= NameRank(y)
       IN  <<n>> \o NameList(S \ {n})

\* os.walk(top): top, then the walk of each sub-directory, as the paths
\* walk spells them (top joined with the names below it); nothing when top
\* is no directory.  The listing order of the sub-directories is the
\* operating system's; get_directories sorts the result.
RECURSIVE walk(_)
RECURSIVE WalkAll(_, _)
walk(top) ==
  IF ~Resolve(top).ok THEN <<>>
  ELSE <<top>> \o WalkAll(top, NameList(SubDirs(Resolve(top).dir)))

WalkAll(top, names) ==
  IF names = <<>> THEN <<>>
  ELSE walk(Append(top, Head(names))) \o WalkAll(top, Tail(names))

\* sorted() on a list of Path objects
RECURSIVE InsertPath(_, _)
InsertPath(acc, p) ==
  IF acc = <<>> \/ PathCmp(p, acc[Len(acc)]) >= 0 THEN Append(acc, p)
  ELSE Append(InsertPath(SubSeq(acc, 1, Len(acc) - 1), p), acc[Len(acc)])

RECURSIVE SortedPaths(_)
SortedPaths(lst) ==
  IF lst = <<>> THEN <<>>
  ELSE InsertPath(SortedPaths(SubSeq(lst, 1, Len(lst) - 1)), lst[Len(lst)])

\* the entries a caller may put in a list of roots: None, the empty
\* string, or the string of an absolute path
NoneEntry == [tag |-> "None", parts |-> <<>>]

EmptyEntry == [tag |-> "empty", parts |-> <<>>]

PathEntry(p) == [tag |-> "path", parts |-> p]

RootEntries ==
  { NoneEntry, EmptyEntry, PathEntry(<<"a">>), PathEntry(<<"a", "sub">>),
    PathEntry(<<"a", "sub", "..">>), PathEntry(<<"missing">>) }

\* the directory arguments: None, or a list of at most MaxRoots entries
RootLists == UNION { [1..n -> RootEntries] : n \in 0..MaxRoots }

NoRoots == [none |-> TRUE, list |-> <<>>]

RootArgs == { NoRoots } \cup { [none |-> FALSE, list |-> l] : l \in RootLists }

\* the inner loops of get_directories for one root: the walked
\* directories that list a name ending in ".dvk"
RECURSIVE DvkDirsOf(_)
DvkDirsOf(walked) ==
  IF walked = <<>> THEN <<>>
  ELSE LET dir == Head(walked)
           add == \E file \in listdir(dir) : Suffix(file) = ".dvk"
       IN  (IF add THEN <<dir>> ELSE <<>>) \o DvkDirsOf(Tail(walked))

\* the loop over the roots ended by the first root that is no directory
RECURSIVE CollectPaths_stop_at_missing(_)
CollectPaths_stop_at_missing(list) ==
  IF list = <<>> THEN <<>>
  ELSE LET d == Head(list)
       IN  IF d.tag = "path" /\ ~Resolve(d.parts).ok THEN <<>>
           ELSE (IF d.tag # "None" /\ d.tag # "empty" THEN DvkDirsOf(walk(d.parts)) ELSE <<>>)
                \o CollectPaths_stop_at_missing(Tail(list))

\* the loop of get_directories over the roots (lines 106-117)
RECURSIVE CollectPaths(_)
CollectPaths(list) ==
  IF list = <<>> THEN <<>>
  ELSE LET d == Head(list)
       IN  (IF d.tag # "None" /\ d.tag # "empty" THEN DvkDirsOf(walk(d.parts)) ELSE <<>>)
           \o CollectPaths(Tail(list))

\* DvkHandler.get_directories
get_directories(directory_strs) ==
  IF directory_strs.none THEN <<>>
  ELSE SortedPaths(clean_list(CollectPaths(directory_strs.list)))

\* get_directories on every argument, computed once (@@ makes TLC build
\* the table instead of evaluating the body at every use)
Directories == [r \in RootArgs |-> get_directories(r)] @@ <<>>

(***************************************************************************)
(* Records                                                                 *)
(***************************************************************************)
\* Python's None, where a string may stand
None == "<None>"

\* the outcome "raises IndexError" of indexing a list
IndexError == "<IndexError>"

Amy == << "a", "m", "y" >>

Zed == << "Z", "e", "d" >>

Time1 == << "2", "0", "2", "0", "/", "0", "1", "/", "0", "1", "|", "0", "0", ":", "0", "0" >>

Time2 == << "2", "0", "2", "0", "/", "0", "1", "/", "0", "2", "|", "0", "0", ":", "0", "0" >>

TimeUnknown == << "0", "0", "0", "0", "/", "0", "0", "/", "0", "0", "|", "0", "0", ":", "0", "0" >>

\* what a record file may hold: id, title, artists, rating, views, time
Meta(id, title, artists, rating, views, time) ==
  [id |-> id, title |-> title, artists |-> artists, rating |-> rating,
   views |-> views, time |-> time]

\* the contents each of the three record files may have
SlotPool ==
  << { Meta("id1", <<"b">>, <<Amy>>, 1, 2, Time1),
       Meta("id2", <<"a", "1", "0">>, <<Zed>>, 2, 1, Time2),
       Meta("id1", <<"a", "2">>, <<Amy, Zed>>, 2, 2, Time2) },
     { Meta("id1", <<"a", "2">>, <<Amy>>, 2, 1, Time2),
       Meta("id2", <<"A", "2">>, <<Zed>>, 1, 1, Time1) },
     { Meta("id1", <<"a", "1", "0">>, <<Amy>>, 1, 1, Time1),
       Meta("id3", <<"a", "2">>, <<Zed>>, 2, 2, Time1) } >>

Pool == UNION { SlotPool[s] : s \in 1..Len(SlotPool) }

\* Dvk(): the empty record
EmptyDvk ==
  [id |-> None, title |-> <<>>, artists |-> <<>>, rating |-> 0, views |-> 0,
   time |-> TimeUnknown, file |-> <<>>]

\* the record read from a file: its contents and the path it was read from
Dvk(meta, file) ==
  [id |-> meta.id, title |-> meta.title, artists |-> meta.artists,
   rating |-> meta.rating, views |-> meta.views, time |-> meta.time,
   file |-> file]

\* DvkDirectory.read_dvks: the records of the files directly in one
\* directory, in file-name order
RECURSIVE ReadSlots(_, _, _)
ReadSlots(files, path, s) ==
  IF s > Len(SlotName) THEN <<>>
  ELSE (IF Resolve(path).ok /\ SlotDir[s] = Resolve(path).dir
        THEN << Dvk(files[s], Append(path, SlotName[s])) >> ELSE <<>>)
       \o ReadSlots(files, path, s + 1)

read_dvks(files, path) == ReadSlots(files, path, 1)

\* the file systems of the model: every record file holds one of its
\* possible contents
FileSystems ==
  { f \in [1..Len(SlotName) -> Pool] : \A s \in 1..Len(SlotName) : f[s] \in SlotPool[s] }

(***************************************************************************)
(* DvkHandler                                                              *)
(***************************************************************************)
\* reset_sorted with the range started at 1 instead of 0
reset_sorted_from1(d) == [i \in 1..(Len(d) - 1) |-> i]

\* reset_sorted filling the list from the front, so that it comes out
\* in descending order
reset_sorted_desc(d) == [i \in 1..Len(d) |-> Len(d) - i]

\* DvkHandler.reset_sorted
reset_sorted(d) == [i \in 1..Len(d) |-> i - 1]

\* the loop of load_dvks: each directory's records appended to the list
RECURSIVE load_loop(_, _, _)
load_loop(files, acc, ps) ==
  IF ps = <<>> THEN acc
  ELSE load_loop(files, acc \o read_dvks(files, Head(ps)), Tail(ps))

\* the list load_dvks builds, from empty, on every file system and
\* argument, computed once
LoadedDvks ==
  [f \in FileSystems |->
     [r \in RootArgs |-> load_loop(f, <<>>, Directories[r])] @@ <<>>] @@ <<>>

\* load_dvks without line 38: the records are added to the old list
load_dvks_keep(files, old, directory_strs) ==
  LET d == old \o LoadedDvks[files][directory_strs]
  IN  [dvks |-> d, paths |-> Directories[directory_strs], sorted |-> reset_sorted(d)]

\* DvkHandler.load_dvks: the handler's lists after the call (old is the
\* list dvks before it, which the call drops)
load_dvks(files, old, directory_strs) ==
  LET d == LoadedDvks[files][directory_strs]
  IN  [dvks |-> d, paths |-> Directories[directory_strs], sorted |-> reset_sorted(d)]

\* DvkHandler.get_size
get_size(srt) == Len(srt)

\* list[i] in Python: negative positions count from the end
PyIndex(lst, i) ==
  IF i >= 0 /\ i < Len(lst) THEN lst[i + 1]
  ELSE IF i < 0 /\ i >= -Len(lst) THEN lst[Len(lst) + i + 1]
  ELSE [EmptyDvk EXCEPT !.id = IndexError]

\* get_dvk_direct with <= in the upper bound check
get_dvk_direct_le(d, srt, index_int) ==
  IF index_int > -1 /\ index_int <= get_size(srt) THEN PyIndex(d, index_int)
  ELSE EmptyDvk

\* DvkHandler.get_dvk_direct
get_dvk_direct(d, srt, index_int) ==
  IF index_int > -1 /\ index_int < get_size(srt) THEN PyIndex(d, index_int)
  ELSE EmptyDvk

\* DvkHandler.get_dvk_sorted
get_dvk_sorted(d, srt, index_int) ==
  IF index_int > -1 /\ index_int < get_size(srt)
  THEN get_dvk_direct(d, srt, srt[index_int + 1])
  ELSE EmptyDvk

\* DvkHandler.compare_artists
compare_artists(x, y) ==
  compare_alphanum(list_to_string(x.artists), list_to_string(y.artists))

\* compare_alpha with the titles compared by compare_strings
compare_alpha_plain_title(group, x, y) ==
  LET r1 == IF group THEN compare_artists(x, y) ELSE 0
      r2 == IF r1 = 0 THEN compare_strings(x.title, y.title) ELSE r1
  IN  IF r2 = 0 THEN compare_strings(x.time, y.time) ELSE r2

\* DvkHandler.compare_alpha
compare_alpha(group, x, y) ==
  LET r1 == IF group THEN compare_artists(x, y) ELSE 0
      r2 == IF r1 = 0 THEN compare_alphanum(x.title, y.title) ELSE r1
  IN  IF r2 = 0 THEN compare_strings(x.time, y.time) ELSE r2

\* compare_time without lines 186-187: equal times are left undecided
compare_time_no_title(group, x, y) ==
  LET r1 == IF group THEN compare_artists(x, y) ELSE 0
  IN  IF r1 = 0 THEN compare_strings(x.time, y.time) ELSE r1

\* DvkHandler.compare_time
compare_time(group, x, y) ==
  LET r1 == IF group THEN compare_artists(x, y) ELSE 0
      r2 == IF r1 = 0 THEN compare_strings(x.time, y.time) ELSE r1
  IN  IF r2 = 0 THEN compare_alphanum(x.title, y.title) ELSE r2

\* compare_ratings with the two results exchanged: highest rating first
compare_ratings_desc(group, x, y) ==
  LET r1 == IF group THEN compare_artists(x, y) ELSE 0
  IN  IF r1 = 0
      THEN IF x.rating < y.rating THEN 1
           ELSE IF x.rating > y.rating THEN -1
           ELSE compare_alpha(group, x, y)
      ELSE r1

\* DvkHandler.compare_ratings
compare_ratings(group, x, y) ==
  LET r1 == IF group THEN compare_artists(x, y) ELSE 0
  IN  IF r1 = 0
      THEN IF x.rating < y.rating THEN -1
           ELSE IF x.rating > y.rating THEN 1
           ELSE compare_alpha(group, x, y)
      ELSE r1

\* compare_views without the artist comparison of lines 230-231
compare_views_no_artists(group, x, y) ==
  IF x.views < y.views THEN -1
  ELSE IF x.views > y.views THEN 1
  ELSE compare_alpha(group, x, y)

\* compare_views with <= in line 233
compare_views_le(group, x, y) ==
  LET r1 == IF group THEN compare_artists(x, y) ELSE 0
  IN  IF r1 = 0
      THEN IF x.views <= y.views THEN -1
           ELSE IF x.views > y.views THEN 1
           ELSE compare_alpha(group, x, y)
      ELSE r1

\* DvkHandler.compare_views
compare_views(group, x, y) ==
  LET r1 == IF group THEN compare_artists(x, y) ELSE 0
  IN  IF r1 = 0
      THEN IF x.views < y.views THEN -1
           ELSE IF x.views > y.views THEN 1
           ELSE compare_alpha(group, x, y)
      ELSE r1

\* the choice of comparator with the last branch taken for "a" only
comparator_a_only(sort_type, group, x, y) ==
  IF sort_type = "t" THEN compare_time(group, x, y)
  ELSE IF sort_type = "r" THEN compare_ratings(group, x, y)
  ELSE IF sort_type = "v" THEN compare_views(group, x, y)
  ELSE IF sort_type = "a" THEN compare_alpha(group, x, y)
  ELSE compare_time(group, x, y)

\* the comparator sort_dvks selects for a sort type that is not None
comparator(sort_type, group, x, y) ==
  IF sort_type = "t" THEN compare_time(group, x, y)
  ELSE IF sort_type = "r" THEN compare_ratings(group, x, y)
  ELSE IF sort_type = "v" THEN compare_views(group, x, y)
  ELSE compare_alpha(group, x, y)

\* an insertion that drops a record the comparator cannot tell from the
\* one before it
RECURSIVE InsertDvk_drop_tie(_, _, _, _)
InsertDvk_drop_tie(acc, x, sort_type, group) ==
  IF acc = <<>> THEN << x >>
  ELSE IF comparator(sort_type, group, x, acc[Len(acc)]) = 0 THEN acc
  ELSE IF ~(comparator(sort_type, group, x, acc[Len(acc)]) < 0) THEN Append(acc, x)
  ELSE Append(InsertDvk_drop_tie(SubSeq(acc, 1, Len(acc) - 1), x, sort_type, group),
              acc[Len(acc)])

\* sorted(list, key=cmp_to_key(cmp)): a stable insertion sort (the one
\* CPython runs on short lists); x goes before y when cmp(x, y) < 0
RECURSIVE InsertDvk(_, _, _, _)
InsertDvk(acc, x, sort_type, group) ==
  IF acc = <<>> \/ ~(comparator(sort_type, group, x, acc[Len(acc)]) < 0)
  THEN Append(acc, x)
  ELSE Append(InsertDvk(SubSeq(acc, 1, Len(acc) - 1), x, sort_type, group),
              acc[Len(acc)])

RECURSIVE PySorted(_, _, _)
PySorted(lst, sort_type, group) ==
  IF lst = <<>> THEN <<>>
  ELSE InsertDvk(PySorted(SubSeq(lst, 1, Len(lst) - 1), sort_type, group),
                 lst[Len(lst)], sort_type, group)

\* DvkHandler.sort_dvks: the list dvks after the call
sort_dvks(d, srt, sort_type, group_artists_bool) ==
  IF sort_type # None /\ get_size(srt) > 0
  THEN PySorted(d, sort_type, group_artists_bool)
  ELSE d

(***************************************************************************)
(* same_ids                                                                *)
(***************************************************************************)
\* the list of ids, in sorted order
ids_of(d, srt) == [i \in 1..get_size(srt) |-> get_dvk_sorted(d, srt, i - 1).id]

InList(x, lst) == \E j \in 1..Len(lst) : lst[j] = x

\* the inner loop with lines 39-41 in the other order: k is marked
\* before i
RECURSIVE scan_inner_k_first(_, _, _, _)
scan_inner_k_first(ids, i, k, s_ids) ==
  IF k >= Len(ids) THEN s_ids
  ELSE IF ids[i + 1] = ids[k + 1]
       THEN scan_inner_k_first(ids, i, k + 1,
                               IF InList(i, s_ids) THEN Append(s_ids, k)
                               ELSE Append(Append(s_ids, k), i))
  ELSE scan_inner_k_first(ids, i, k + 1, s_ids)

\* the inner loop: k from i + 1 up to size - 1
RECURSIVE scan_inner(_, _, _, _)
scan_inner(ids, i, k, s_ids) ==
  IF k >= Len(ids) THEN s_ids
  ELSE IF ids[i + 1] = ids[k + 1]
       THEN scan_inner(ids, i, k + 1,
                       Append(IF InList(i, s_ids) THEN s_ids ELSE Append(s_ids, i), k))
  ELSE scan_inner(ids, i, k + 1, s_ids)

\* the outer loop without the test of line 36: marked positions are
\* scanned from again
RECURSIVE scan_outer_no_skip(_, _, _)
scan_outer_no_skip(ids, i, s_ids) ==
  IF i >= Len(ids) THEN s_ids
  ELSE scan_outer_no_skip(ids, i + 1, scan_inner(ids, i, i + 1, s_ids))

\* the outer loop: i from 0 up to size - 1
RECURSIVE scan_outer(_, _, _)
scan_outer(ids, i, s_ids) ==
  IF i >= Len(ids) THEN s_ids
  ELSE IF ~InList(i, s_ids)
       THEN scan_outer(ids, i + 1, scan_inner(ids, i, i + 1, s_ids))
  ELSE scan_outer(ids, i + 1, s_ids)

\* the positions same_ids marks, in the order it marks them
find_identical(ids) == scan_outer(ids, 0, <<>>)

\* same_ids on a handler whose lists are d and srt, after its sort:
\* the paths of the marked records
same_ids_paths(d, srt) ==
  LET s_ids == find_identical(ids_of(d, srt))
  IN  [j \in 1..Len(s_ids) |-> get_dvk_sorted(d, srt, s_ids[j]).file]

\* same_ids(dvk_directories) on a new handler: its lists when same_ids
\* returns and the list returned
same_ids_fresh(files, dvk_directories) ==
  LET h == load_dvks(files, <<>>, dvk_directories)
      d == sort_dvks(h.dvks, h.sorted, "a", TRUE)
  IN  [dvks |-> d, paths |-> h.paths, sorted |-> h.sorted,
       ret |-> same_ids_paths(d, h.sorted)]

\* the same on every file system and argument, computed once
SameIdsFresh ==
  [f \in FileSystems |-> [r \in RootArgs |-> same_ids_fresh(f, r)] @@ <<>>] @@ <<>>

(***************************************************************************)
(* The state machine: one handler, the calls a client can make on it       *)
(***************************************************************************)
\* the sort types a caller may pass: None, the four documented letters
\* and some other string
SortTypes == { None, "t", "r", "v", "a", "x" }

\* the value of driver where no HeavyConnect object has been made
NoConnect == "<no HeavyConnect>"

\* the call that produced the current state
Call(op, mode, group) == [op |-> op, mode |-> mode, group |-> group]

\* DvkHandler.__init__ on some file system; group_artists is not set yet
Init ==
  /\ fs \in FileSystems
  /\ dvks = <<>>
  /\ sorted = <<>>
  /\ paths = <<>>
  /\ group_artists = <<>>
  /\ last = Call("init", None, FALSE)
  /\ ret = <<>>
  /\ driver = NoConnect

\* load_dvks that keeps the list it holds when the directories are the
\* ones loaded before and hold as many records
LoadDvksKeepsOrder(directory_strs) ==
  LET h == load_dvks(fs, dvks, directory_strs)
  IN  /\ dvks' = IF h.paths = paths /\ Len(h.dvks) = Len(dvks) THEN dvks ELSE h.dvks
      /\ paths' = h.paths
      /\ sorted' = h.sorted
      /\ last' = Call("load", None, FALSE)
      /\ ret' = <<>>
      /\ UNCHANGED << fs, group_artists, driver >>

\* handler.load_dvks(directory_strs)
LoadDvks(directory_strs) ==
  LET h == load_dvks(fs, dvks, directory_strs)
  IN  /\ dvks' = h.dvks
      /\ paths' = h.paths
      /\ sorted' = h.sorted
      /\ last' = Call("load", None, FALSE)
      /\ ret' = <<>>
      /\ UNCHANGED << fs, group_artists, driver >>

\* sort_dvks as an index sort: dvks stays in load order and sorted lists
\* the positions in the order of the comparator
SortDvksByIndex(sort_type, group_artists_bool) ==
  LET d == sort_dvks(dvks, sorted, sort_type, group_artists_bool)
  IN  /\ group_artists' = << group_artists_bool >>
      /\ sorted' = [k \in 1..Len(d) |->
                     (CHOOSE i \in 1..Len(dvks) : dvks[i] = d[k]) - 1]
      /\ last' = Call("sort", sort_type, group_artists_bool)
      /\ ret' = <<>>
      /\ UNCHANGED << fs, dvks, paths, driver >>

\* sort_dvks with line 132 moved behind the sort: the comparators read
\* the group_artists of the call before (unset counts as False)
SortDvksStaleGroup(sort_type, group_artists_bool) ==
  /\ group_artists' = << group_artists_bool >>
  /\ dvks' = sort_dvks(dvks, sorted, sort_type, group_artists = << TRUE >>)
  /\ last' = Call("sort", sort_type, group_artists_bool)
  /\ ret' = <<>>
  /\ UNCHANGED << fs, sorted, paths, driver >>

\* handler.sort_dvks(sort_type, group_artists_bool)
SortDvks(sort_type, group_artists_bool) ==
  /\ group_artists' = << group_artists_bool >>
  /\ dvks' = sort_dvks(dvks, sorted, sort_type, group_artists_bool)
  /\ last' = Call("sort", sort_type, group_artists_bool)
  /\ ret' = <<>>
  /\ UNCHANGED << fs, sorted, paths, driver >>

\* same_ids(dvk_handler=handler): sorts the handler, then scans it
SameIdsHandler ==
  LET d == sort_dvks(dvks, sorted, "a", TRUE)
  IN  /\ group_artists' = << TRUE >>
      /\ dvks' = d
      /\ ret' = same_ids_paths(d, sorted)
      /\ last' = Call("same_ids", "a", TRUE)
      /\ UNCHANGED << fs, sorted, paths, driver >>

\* same_ids(dvk_directories): makes a handler of its own, loads, sorts and
\* scans it.  The handler variables describe the handler same_ids works
\* on, so the new handler takes the place of the one described before.
SameIdsDirs(dvk_directories) ==
  LET h == SameIdsFresh[fs][dvk_directories]
  IN  /\ group_artists' = << TRUE >>
      /\ dvks' = h.dvks
      /\ paths' = h.paths
      /\ sorted' = h.sorted
      /\ ret' = h.ret
      /\ last' = Call("same_ids_dirs", "a", TRUE)
      /\ UNCHANGED << fs, driver >>

Next ==
  \/ \E r \in RootArgs : LoadDvks(r)
  \/ \E t \in SortTypes, g \in BOOLEAN : SortDvks(t, g)
  \/ SameIdsHandler
  \/ \E r \in RootArgs : SameIdsDirs(r)

Spec == Init /\ [][Next]_vars

(***************************************************************************)
(* get_directories on its own: a client calls it with a list of roots      *)
(***************************************************************************)
\* the root entries of these calls: those above, the directory without
\* record files and the directory that holds only "old.dvk"
DirRootEntries == RootEntries \cup { PathEntry(<<"a", "sub2">>), PathEntry(<<"c">>) }

DirRootArgs ==
  { NoRoots } \cup
  { [none |-> FALSE, list |-> l] :
      l \in UNION { [1..n -> DirRootEntries] : n \in 0..MaxRoots } }

\* get_directories on each of these arguments, computed once
DirDirectories == [r \in DirRootArgs |-> get_directories(r)] @@ <<>>

\* handler.get_directories(directory_strs): the handler's lists stay as
\* they are, the list returned is kept in ret
GetDirectories(directory_strs) ==
  /\ ret' = DirDirectories[directory_strs]
  /\ last' = [op |-> "get_directories", mode |-> None, group |-> FALSE,
              roots |-> directory_strs]
  /\ UNCHANGED << fs, dvks, sorted, paths, group_artists, driver >>

DirNext == \E r \in DirRootArgs : GetDirectories(r)

\* get_directories reads the names in the directories, not the records:
\* the file systems whose records all carry the id "id1" are enough here
DirInit == Init /\ \A s \in Slots : fs[s].id = "id1"

DirSpec == DirInit /\ [][DirNext]_vars

(***************************************************************************)
(* The comparators on their own: the comparisons sort_dvks hands to        *)
(* sorted(), made on the records of a loaded handler                       *)
(***************************************************************************)
\* what a record file may hold in these runs: the contents above, a
\* title with a leading zero (a second copy of the record "a2" of amy,
\* with another rating) and a title that starts with a digit
CmpPool ==
  Pool \cup { Meta("id1", <<"a", "0", "2">>, <<Amy>>, 1, 1, Time2),
              Meta("id5", <<"2", "b">>, <<Zed, Amy>>, 2, 2, Time2) }

\* the root of the same_ids test
TestRoot == [none |-> FALSE, list |-> << PathEntry(<<"a">>) >>]

\* a handler after load_dvks on the test root, every record file holding
\* any of the contents
CmpInit ==
  /\ fs \in [Slots -> CmpPool]
  /\ paths = get_directories(TestRoot)
  /\ dvks = load_loop(fs, <<>>, paths)
  /\ sorted = reset_sorted(dvks)
  /\ group_artists = <<>>
  /\ last = Call("load", None, FALSE)
  /\ ret = <<>>
  /\ driver = NoConnect

\* the comparator sort_dvks(sort_type, group_artists_bool) chooses, with
\* group_artists set as line 132 sets it, applied to every pair of the
\* records; ret[i][j] is its result on dvks[i] and dvks[j]
Compare(sort_type, group_artists_bool) ==
  /\ group_artists' = << group_artists_bool >>
  /\ ret' = [i \in 1..Len(dvks) |->
              [j \in 1..Len(dvks) |->
                 comparator(sort_type, group_artists_bool, dvks[i], dvks[j])]]
  /\ last' = Call("compare", sort_type, group_artists_bool)
  /\ UNCHANGED << fs, dvks, sorted, paths, driver >>

CmpNext == \E t \in { "t", "r", "v", "a" }, g \in BOOLEAN : Compare(t, g)

CmpSpec == CmpInit /\ [][CmpNext]_vars

(***************************************************************************)
(* same_ids on a handler with a history: a loaded handler, sorted any      *)
(* number of times and handed to same_ids                                  *)
(***************************************************************************)
HistoryNext ==
  \/ \E t \in SortTypes, g \in BOOLEAN : SortDvks(t, g)
  \/ SameIdsHandler

HistorySpec == CmpInit /\ [][HistoryNext]_vars

(***************************************************************************)
(* HeavyConnect: a Selenium driver, the pages fetched with it              *)
(***************************************************************************)
\* how a call ends: it returns None, it returns a page, or it raises
ReturnsNone == << "return", None >>

Raises(exception) == << "raise", exception >>

\* the drivers initialize_driver tries, in the order it tries them
Browsers == << "Firefox", "Chrome", "Edge" >>

\* the first of three drivers that starts, None when none does
\* (can_start: the drivers whose constructor raises no WebDriverException)
initialize_driver(can_start) ==
  IF Browsers[1] \in can_start THEN Browsers[1]
  ELSE IF Browsers[2] \in can_start THEN Browsers[2]
  ELSE IF Browsers[3] \in can_start THEN Browsers[3]
  ELSE None

\* BeautifulSoup(self.driver.page_source, "lxml"), returned
ReturnsPage(url) == << "return", "page", url >>

\* HeavyConnect.get_page: what the call returns or raises.  loads: the
\* driver gets the page without a WebDriverException; found: the
\* element waited for appears in time.  self.driver.get on None raises
\* AttributeError, which the except clause does not name.
get_page(drv, url, wait, element, loads, found) ==
  IF url = None \/ url = "" THEN ReturnsNone
  ELSE IF drv = None THEN Raises("AttributeError")
  ELSE IF ~loads THEN ReturnsNone
  ELSE IF element # None /\ element # "" /\ ~found THEN ReturnsNone
  ELSE ReturnsPage(url)

\* HeavyConnect.close_driver; closes: the driver's close() raises no
\* WebDriverException
close_driver(drv, closes) ==
  IF drv # None THEN (IF closes THEN ReturnsNone ELSE Raises("WebDriverException"))
  ELSE ReturnsNone

\* HeavyConnect(headless): __init__ calls initialize_driver; there is no
\* DvkHandler in these runs and no record file
HeavyInit ==
  /\ fs = <<>>
  /\ dvks = <<>>
  /\ sorted = <<>>
  /\ paths = <<>>
  /\ group_artists = <<>>
  /\ ret = ReturnsNone
  /\ \E can_start \in SUBSET { Browsers[i] : i \in 1..Len(Browsers) }, headless \in BOOLEAN :
       /\ driver = initialize_driver(can_start)
       /\ last = [op |-> "initialize_driver", can_start |-> can_start,
                  headless |-> headless]

\* connect.initialize_driver(headless), called again
InitializeDriver(can_start, headless) ==
  /\ driver' = initialize_driver(can_start)
  /\ last' = [op |-> "initialize_driver", can_start |-> can_start,
              headless |-> headless]
  /\ ret' = ReturnsNone
  /\ UNCHANGED << fs, dvks, sorted, paths, group_artists >>

\* connect.get_page(url, wait, element)
GetPage(url, wait, element, loads, found) ==
  /\ ret' = get_page(driver, url, wait, element, loads, found)
  /\ last' = [op |-> "get_page", url |-> url, wait |-> wait, element |-> element,
              loads |-> loads, found |-> found]
  /\ UNCHANGED << fs, dvks, sorted, paths, group_artists, driver >>

\* connect.close_driver()
CloseDriver(closes) ==
  /\ ret' = close_driver(driver, closes)
  /\ last' = [op |-> "close_driver", closes |-> closes]
  /\ UNCHANGED << fs, dvks, sorted, paths, group_artists, driver >>

HeavyNext ==
  \/ \E can_start \in SUBSET { Browsers[i] : i \in 1..Len(Browsers) }, headless \in BOOLEAN :
       InitializeDriver(can_start, headless)
  \/ \E url \in { None, "", "http://page" }, wait \in { 0, 1 },
        element \in { None, "", "//div" }, loads \in BOOLEAN, found \in BOOLEAN :
       GetPage(url, wait, element, loads, found)
  \/ \E closes \in BOOLEAN : CloseDriver(closes)

HeavySpec == HeavyInit /\ [][HeavyNext]_vars

(***************************************************************************)
(* dvk_html: the HTML text made from one record.  A text is a sequence of  *)
(* pieces: the literals of the code and the characters taken from or       *)
(* computed from the record.                                               *)
(***************************************************************************)
\* the record handed to the functions of dvk_html: None, or a Dvk with
\* its publication time and its three URLs (each a string or None)
NoneDvk ==
  [none |-> TRUE, time |-> TimeUnknown, page_url |-> None, direct_url |-> None,
   secondary_url |-> None]

HtmlDvk(time, page_url, direct_url, secondary_url) ==
  [none |-> FALSE, time |-> time, page_url |-> page_url, direct_url |-> direct_url,
   secondary_url |-> secondary_url]

DigitChars == << "0", "1", "2", "3", "4", "5", "6", "7", "8", "9" >>

\* int(s) on a string of digits
RECURSIVE ParseInt(_)
ParseInt(str) ==
  IF str = <<>> THEN 0
  ELSE 10 * ParseInt(SubSeq(str, 1, Len(str) - 1))
       + (CHOOSE d \in 0..9 : DigitChars[d + 1] = str[Len(str)])

\* str(n) on a natural number
RECURSIVE IntToStr(_)
IntToStr(n) ==
  IF n < 10 THEN << DigitChars[n + 1] >>
  ELSE IntToStr(n \div 10) \o << DigitChars[(n % 10) + 1] >>

\* string_processing.pad_num: zeros put in front up to the length asked
\* for; all zeros for a string that is too long
RECURSIVE pad_num(_, _)
pad_num(str, length) ==
  IF length < 1 THEN <<>>
  ELSE IF Len(str) > length THEN [i \in 1..length |-> "0"]
  ELSE IF Len(str) < length THEN pad_num(<< "0" >> \o str, length)
  ELSE str

Months == << "Jan", "Feb", "Mar", "Apr", "May", "Jun",
             "Jul", "Aug", "Sep", "Oct", "Nov", "Dec" >>

\* get_time_string with <= in the test of line 87
get_time_string_noon_am(dvk, twelve_hour) ==
  IF dvk.none \/ dvk.time = TimeUnknown THEN << "Unknown Publication Date" >>
  ELSE LET time == dvk.time
           year == SubSeq(time, 1, 4)
           month_int == ParseInt(SubSeq(time, 6, 7))
           month == IF month_int >= 1 /\ month_int <= Len(Months) THEN Months[month_int]
                    ELSE IF month_int = 0 THEN Months[Len(Months)]
                    ELSE IndexError
           day == SubSeq(time, 9, 10)
           hour_int == ParseInt(SubSeq(time, 12, 13))
           minute == SubSeq(time, 15, 16)
           suffix == IF ~twelve_hour THEN <<>>
                     ELSE IF hour_int <= 12 THEN << " AM" >> ELSE << " PM" >>
           hour_12 == IF ~twelve_hour THEN hour_int
                      ELSE IF hour_int <= 12 THEN (IF hour_int = 0 THEN 12 ELSE hour_int)
                      ELSE IF hour_int # 12 THEN hour_int - 12 ELSE hour_int
           clock_string == pad_num(IntToStr(hour_12), 2) \o << ":" >> \o minute \o suffix
       IN  << "Posted <b>" >> \o day \o << " ", month, " " >> \o year
             \o << " - " >> \o clock_string \o << "</b>" >>

\* dvk_html.get_time_string
get_time_string(dvk, twelve_hour) ==
  IF dvk.none \/ dvk.time = TimeUnknown THEN << "Unknown Publication Date" >>
  ELSE LET time == dvk.time
           year == SubSeq(time, 1, 4)
           month_int == ParseInt(SubSeq(time, 6, 7))
           month == IF month_int >= 1 /\ month_int <= Len(Months) THEN Months[month_int]
                    ELSE IF month_int = 0 THEN Months[Len(Months)]
                    ELSE IndexError
           day == SubSeq(time, 9, 10)
           hour_int == ParseInt(SubSeq(time, 12, 13))
           minute == SubSeq(time, 15, 16)
           suffix == IF ~twelve_hour THEN <<>>
                     ELSE IF hour_int < 12 THEN << " AM" >> ELSE << " PM" >>
           hour_12 == IF ~twelve_hour THEN hour_int
                      ELSE IF hour_int < 12 THEN (IF hour_int = 0 THEN 12 ELSE hour_int)
                      ELSE IF hour_int # 12 THEN hour_int - 12 ELSE hour_int
           clock_string == pad_num(IntToStr(hour_12), 2) \o << ":" >> \o minute \o suffix
       IN  << "Posted <b>" >> \o day \o << " ", month, " " >> \o year
             \o << " - " >> \o clock_string \o << "</b>" >>

\* html_processing.create_html_tag: the opening tag with its attributes,
\* the text (on lines of its own when pad_text is set) and the closing tag
RECURSIVE tag_attributes(_)
tag_attributes(attributes) ==
  IF attributes = <<>> THEN <<>>
  ELSE << " ", Head(attributes)[1], "=\"", Head(attributes)[2], "\"" >>
       \o tag_attributes(Tail(attributes))

create_html_tag(tag, attributes, text, pad_text) ==
  << "<", tag >> \o tag_attributes(attributes) \o << ">" >>
    \o (IF pad_text THEN << "\n" >> \o text \o << "\n" >> ELSE text)
    \o << "</", tag, ">" >>

\* dvk_html.list_to_lines
RECURSIVE list_to_lines(_)
list_to_lines(lst) ==
  IF lst = <<>> THEN <<>>
  ELSE IF Len(lst) = 1 THEN lst[1]
  ELSE list_to_lines(SubSeq(lst, 1, Len(lst) - 1)) \o << "\n" >> \o lst[Len(lst)]

\* the links of get_page_link_html when an empty URL is skipped as well
page_links_skip_empty(dvk) ==
  LET cls == << "class", "dvk_link" >>
      Link(url, text) ==
        IF url # None /\ url # ""
        THEN << create_html_tag("a", << cls, << "href", url >> >>, << text >>, FALSE) >>
        ELSE <<>>
  IN  Link(dvk.page_url, "Page URL") \o Link(dvk.direct_url, "Direct URL")
        \o Link(dvk.secondary_url, "Secondary URL")

\* get_page_link_html, lines 251-265: the links of the URLs that are set
page_links(dvk) ==
  LET cls == << "class", "dvk_link" >>
      Link(url, text) ==
        IF url # None
        THEN << create_html_tag("a", << cls, << "href", url >> >>, << text >>, FALSE) >>
        ELSE <<>>
  IN  Link(dvk.page_url, "Page URL") \o Link(dvk.direct_url, "Direct URL")
        \o Link(dvk.secondary_url, "Secondary URL")

\* dvk_html.get_page_link_html
get_page_link_html(dvk) ==
  IF dvk.none THEN <<>>
  ELSE LET links == page_links(dvk)
           grid == IF Len(links) = 3 THEN "dvk_three_grid"
                   ELSE IF Len(links) = 2 THEN "dvk_two_grid"
                   ELSE "dvk_one_grid"
           attr == << << "id", "dvk_page_links" >>, << "class", grid >> >>
       IN  IF Len(links) \in { 1, 2, 3 }
           THEN create_html_tag("div", attr, list_to_lines(links), TRUE)
           ELSE <<>>

\* a number below 100 written with two digits
TwoDigits(n) == << DigitChars[(n \div 10) + 1], DigitChars[(n % 10) + 1] >>

\* the publication time of a day in 2020: YYYY/MM/DD|hh:mm
MakeTime(month, day, hour, minute) ==
  << "2", "0", "2", "0", "/" >> \o TwoDigits(month) \o << "/" >> \o TwoDigits(day)
    \o << "|" >> \o TwoDigits(hour) \o << ":" >> \o TwoDigits(minute)

\* the records whose time is shown: every hour of the day, in the first
\* and the last month, at the first and the last minute; the record
\* without a time; and no record
TimeDvks ==
  { HtmlDvk(MakeTime(mo, 5, h, mi), None, None, None) :
      mo \in { 1, 12 }, h \in 0..23, mi \in { 0, 59 } }
  \cup { HtmlDvk(TimeUnknown, None, None, None), NoneDvk }

\* the records whose links are shown: each URL missing, empty or set;
\* and no record
LinkDvks ==
  { HtmlDvk(TimeUnknown, page, direct, secondary) :
      page \in { None, "", "http://page" },
      direct \in { None, "", "http://direct" },
      secondary \in { None, "", "http://secondary" } }
  \cup { NoneDvk }

\* no handler, no record file and no driver in these runs
HtmlInit ==
  /\ fs = <<>>
  /\ dvks = <<>>
  /\ sorted = <<>>
  /\ paths = <<>>
  /\ group_artists = <<>>
  /\ driver = NoConnect
  /\ last = Call("init", None, FALSE)
  /\ ret = <<>>

\* get_time_string(dvk, twelve_hour)
GetTimeString(dvk, twelve_hour) ==
  /\ ret' = get_time_string(dvk, twelve_hour)
  /\ last' = [op |-> "get_time_string", dvk |-> dvk, twelve_hour |-> twelve_hour]
  /\ UNCHANGED << fs, dvks, sorted, paths, group_artists, driver >>

\* get_page_link_html(dvk)
GetPageLinkHtml(dvk) ==
  /\ ret' = get_page_link_html(dvk)
  /\ last' = [op |-> "get_page_link_html", dvk |-> dvk, twelve_hour |-> FALSE]
  /\ UNCHANGED << fs, dvks, sorted, paths, group_artists, driver >>

HtmlNext ==
  \/ \E dvk \in TimeDvks, twelve_hour \in BOOLEAN : GetTimeString(dvk, twelve_hour)
  \/ \E dvk \in LinkDvks : GetPageLinkHtml(dvk)

HtmlSpec == HtmlInit /\ [][HtmlNext]_vars

(***************************************************************************)
(* Properties                                                              *)
(***************************************************************************)
\* the positions a caller may ask for: all valid ones and some on
\* either side
Indexes == (0 - Len(dvks) - 2)..(Len(dvks) + 2)

InRange(i) == 0 <= i /\ i < get_size(sorted)

\* the records read, directory by directory, as one list
RECURSIVE ConcatReads(_, _)
ConcatReads(files, ps) ==
  IF ps = <<>> THEN <<>>
  ELSE ConcatReads(files, SubSeq(ps, 1, Len(ps) - 1)) \o read_dvks(files, ps[Len(ps)])

RECURSIVE CountReads(_, _)
CountReads(files, ps) ==
  IF ps = <<>> THEN 0 ELSE Len(read_dvks(files, Head(ps))) + CountReads(files, Tail(ps))

\* C1: in every reachable state and for every integer i, get_dvk_sorted(i)
\* is dvks[sorted[i]] and get_dvk_direct(i) is dvks[i] when
\* 0 <= i < get_size(); otherwise both are the empty record; neither raises
C1_IndexAccess ==
  \A i \in Indexes :
    /\ get_dvk_sorted(dvks, sorted, i).id # IndexError
    /\ get_dvk_direct(dvks, sorted, i).id # IndexError
    /\ InRange(i) =>
         /\ i + 1 \in DOMAIN dvks
         /\ get_dvk_direct(dvks, sorted, i) = dvks[i + 1]
         /\ sorted[i + 1] + 1 \in DOMAIN dvks
         /\ get_dvk_sorted(dvks, sorted, i) = dvks[sorted[i + 1] + 1]
    /\ ~InRange(i) =>
         /\ get_dvk_direct(dvks, sorted, i) = EmptyDvk
         /\ get_dvk_sorted(dvks, sorted, i) = EmptyDvk

\* a sorted handler of three or more records: valid positions give
\* records, the positions around them the empty record
C1_Witness ==
  /\ last.op = "sort"
  /\ Len(dvks) >= 3
  /\ get_dvk_sorted(dvks, sorted, Len(dvks) - 1) = dvks[Len(dvks)]
  /\ get_dvk_sorted(dvks, sorted, Len(dvks) - 1) # EmptyDvk
  /\ get_dvk_direct(dvks, sorted, Len(dvks)) = EmptyDvk
  /\ get_dvk_sorted(dvks, sorted, -1) = EmptyDvk

\* C2: in every reachable state, sorted is as long as dvks and its values
\* are a permutation of 0..n-1
C2_SortedIsPermutation ==
  /\ Len(sorted) = Len(dvks)
  /\ { sorted[i] : i \in 1..Len(sorted) } = 0..(Len(dvks) - 1)

\* loaded records that a sort has moved out of their load order
C2_Witness ==
  /\ last.op = "sort"
  /\ Len(dvks) >= 2
  /\ dvks # LoadedDvks[fs][[none |-> FALSE, list |-> << PathEntry(<<"a">>) >>]]
  /\ paths = << <<"a">>, <<"a", "sub">> >>
  /\ Len(sorted) = Len(dvks)

\* C3: after every load_dvks call, dvks is the concatenation, in the order
\* of the sorted leaf directories, of the records read from each of them,
\* and get_size() is their total number
C3_LoadIsConcatenation ==
  last.op = "load" =>
    /\ dvks = ConcatReads(fs, paths)
    /\ get_size(sorted) = CountReads(fs, paths)

\* a load that follows a sort (group_artists is set) and reads several
\* directories
C3_Witness ==
  /\ last.op = "load"
  /\ group_artists # <<>>
  /\ Len(paths) >= 2
  /\ Len(dvks) >= 3
  /\ dvks = ConcatReads(fs, paths)

\* C4: immediately after every load_dvks call, sorted is the identity
\* permutation [0, 1, ..., n-1], n the number of records
C4_IdentityAfterLoad ==
  last.op = "load" =>
    /\ Len(sorted) = Len(dvks)
    /\ \A i \in 1..Len(sorted) : sorted[i] = i - 1

\* a load of several records
C4_Witness ==
  /\ last.op = "load"
  /\ Len(dvks) >= 2
  /\ sorted = [i \in 1..Len(dvks) |-> i - 1]

\* the last call was same_ids, in either form
AfterSameIds == last.op \in { "same_ids", "same_ids_dirs" }

\* the record at direct position i (from 1) shares its id with another
Colliding(i) == \E j \in 1..Len(dvks) : j # i /\ dvks[j].id = dvks[i].id

\* C5: same_ids returns the path of a record if and only if another
\* loaded record has the same id, each such path once; the length of
\* the list is the number of colliding records
C5_SameIdsReportsCollisions ==
  AfterSameIds =>
    /\ \A i \in 1..Len(dvks) :
         Colliding(i) <=> (\E a \in 1..Len(ret) : ret[a] = dvks[i].file)
    /\ \A a \in 1..Len(ret) : \E i \in 1..Len(dvks) : dvks[i].file = ret[a]
    /\ \A a, b \in 1..Len(ret) : a # b => ret[a] # ret[b]
    /\ Len(ret) = Cardinality({ i \in 1..Len(dvks) : Colliding(i) })

\* two colliding records with a record of another id sorted between
\* them, which is not reported
C5_Witness ==
  /\ last.op = "same_ids"
  /\ Len(dvks) = 3
  /\ dvks[1].id = dvks[3].id
  /\ dvks[2].id # dvks[1].id
  /\ ret = << dvks[1].file, dvks[3].file >>

\* the id at sorted position p (from 0)
IdAt(p) == dvks[sorted[p + 1] + 1].id

\* the sorted positions that hold the id of position p
Members(p) == { q \in 0..(Len(sorted) - 1) : IdAt(q) = IdAt(p) }

\* the first positions of the clusters of two or more records
ClusterFirsts ==
  { p \in 0..(Len(sorted) - 1) :
      /\ Cardinality(Members(p)) >= 2
      /\ \A q \in Members(p) : p <= q }

\* a set of numbers as an ascending list
RECURSIVE Ascending(_)
Ascending(S) ==
  IF S = {} THEN <<>>
  ELSE LET m == CHOOSE x \in S : \A y \in S : x <= y
       IN  <<m>> \o Ascending(S \ {m})

\* the clusters, one after the other, each in ascending position
RECURSIVE Blocks(_)
Blocks(firsts) ==
  IF firsts = <<>> THEN <<>>
  ELSE Ascending(Members(Head(firsts))) \o Blocks(Tail(firsts))

\* the positions an equal-id grouping over the sorted positions reports
Grouping == Blocks(Ascending(ClusterFirsts))

\* C6: the list same_ids returns is that of the grouping: the clusters as
\* contiguous blocks in the order of their first members, each cluster in
\* ascending sorted position
C6_ScanEqualsGrouping ==
  AfterSameIds =>
    /\ Len(ret) = Len(Grouping)
    /\ \A j \in 1..Len(ret) : ret[j] = dvks[sorted[Grouping[j] + 1] + 1].file

\* two clusters whose positions interleave: the list returned is not in
\* ascending position
C6_Witness ==
  /\ AfterSameIds
  /\ Cardinality(ClusterFirsts) >= 2
  /\ \E j \in 1..(Len(Grouping) - 1) : Grouping[j] > Grouping[j + 1]
  /\ Len(ret) = Len(Grouping)

\* the orders of two records by artists, by title and by time
ArtistOrder(x, y) ==
  compare_alphanum(list_to_string(x.artists), list_to_string(y.artists))

TitleOrder(x, y) == compare_alphanum(x.title, y.title)

TimeOrder(x, y) == compare_strings(x.time, y.time)

\* alphabetic order: artists first when grouping, then title, then time
AlphaOrder(group, x, y) ==
  IF group /\ ArtistOrder(x, y) # 0 THEN ArtistOrder(x, y)
  ELSE IF TitleOrder(x, y) # 0 THEN TitleOrder(x, y)
  ELSE TimeOrder(x, y)

InAlphaOrder(d, group) ==
  \A i, j \in 1..Len(d) : i < j => AlphaOrder(group, d[i], d[j]) <= 0

\* the records are not in the order load_dvks put them in
Reordered == dvks # ConcatReads(fs, paths)

\* C7 as stated: after sort_dvks with any mode other than "t", "r", "v",
\* None included, the records are in alphabetic order
C7_AnyOtherModeAlphabetic ==
  (last.op = "sort" /\ last.mode \notin { "t", "r", "v" }) =>
    InAlphaOrder(dvks, last.group)

\* C7 amended: sort_dvks with a mode other than "t", "r", "v" and other
\* than None leaves the records in alphabetic order; with None it leaves
\* the records in the order they had
C7_OtherModeAlphabeticNoneKeeps ==
  [][ last'.op = "sort" =>
        /\ last'.mode = None => dvks' = dvks
        /\ last'.mode \notin { "t", "r", "v", None } =>
             InAlphaOrder(dvks', last'.group) ]_vars

\* a sort with the undocumented mode "x" that put three or more records
\* in alphabetic order
C7_Witness ==
  /\ last.op = "sort"
  /\ last.mode = "x"
  /\ Len(dvks) >= 3
  /\ Reordered
  /\ InAlphaOrder(dvks, last.group)

\* C8: after sort_dvks(mode, group), a second sort_dvks(mode, group)
\* leaves the records in the order of the first
C8_SortIdempotent ==
  last.op = "sort" => sort_dvks(dvks, sorted, last.mode, last.group) = dvks

\* a grouped sort that moved the records and left two different
\* records that the comparator does not tell apart
C8_Witness ==
  /\ last.op = "sort"
  /\ last.mode = "t"
  /\ last.group
  /\ Reordered
  /\ \E i, j \in 1..Len(dvks) :
       i < j /\ dvks[i] # dvks[j] /\ comparator("t", TRUE, dvks[i], dvks[j]) = 0

\* C9: with grouping, in each of the four modes two records whose artist
\* strings differ are ordered by the artist comparison alone, and the
\* mode's key decides only when the artist strings tie
C9_ArtistsDecideFirst ==
  /\ \A i, j \in 1..Len(dvks), t \in { "t", "r", "v", "a" } :
       /\ ArtistOrder(dvks[i], dvks[j]) # 0 =>
            comparator(t, TRUE, dvks[i], dvks[j]) = ArtistOrder(dvks[i], dvks[j])
       /\ ArtistOrder(dvks[i], dvks[j]) = 0 =>
            comparator(t, TRUE, dvks[i], dvks[j]) = comparator(t, FALSE, dvks[i], dvks[j])
  /\ (last.op = "sort" /\ last.group /\ last.mode # None) =>
       \A i, j \in 1..Len(dvks) : i < j => ArtistOrder(dvks[i], dvks[j]) <= 0

\* a grouped sort by views that put a record before one with fewer
\* views and a smaller title, because of its artists
C9_Witness ==
  /\ last.op = "sort"
  /\ last.group
  /\ last.mode = "v"
  /\ \E i, j \in 1..Len(dvks) :
       /\ i < j
       /\ ArtistOrder(dvks[i], dvks[j]) < 0
       /\ dvks[i].views > dvks[j].views
       /\ TitleOrder(dvks[i], dvks[j]) > 0

\* the key of the rating mode and of the views mode
ModeKey(mode, x) == IF mode = "r" THEN x.rating ELSE x.views

\* C10: after sort_dvks in rating (views) mode, rating (views) does not
\* decrease along the list, and records of equal rating (views) are in
\* alphabetic order; with grouping, the same among records of one artist
\* string
C10_RatingViewsOrder ==
  (last.op = "sort" /\ last.mode \in { "r", "v" }) =>
    \A i, j \in 1..Len(dvks) :
      (i < j /\ (~last.group \/ ArtistOrder(dvks[i], dvks[j]) = 0)) =>
        /\ ModeKey(last.mode, dvks[i]) <= ModeKey(last.mode, dvks[j])
        /\ ModeKey(last.mode, dvks[i]) = ModeKey(last.mode, dvks[j]) =>
             AlphaOrder(last.group, dvks[i], dvks[j]) <= 0

\* an ungrouped sort by rating: a lower rating before a smaller title,
\* and two records of one rating ordered by their titles
C10_Witness ==
  /\ last.op = "sort"
  /\ last.mode = "r"
  /\ ~last.group
  /\ \E i, j \in 1..Len(dvks) :
       i < j /\ dvks[i].rating < dvks[j].rating /\ TitleOrder(dvks[i], dvks[j]) > 0
  /\ \E i, j \in 1..Len(dvks) :
       i < j /\ dvks[i].rating = dvks[j].rating /\ TitleOrder(dvks[i], dvks[j]) < 0

\* C11: after sort_dvks in time mode the times do not decrease along the
\* list and records of equal time are ordered by their titles; with
\* grouping, the same among records of one artist string
C11_TimeOrder ==
  (last.op = "sort" /\ last.mode = "t") =>
    \A i, j \in 1..Len(dvks) :
      (i < j /\ (~last.group \/ ArtistOrder(dvks[i], dvks[j]) = 0)) =>
        /\ TimeOrder(dvks[i], dvks[j]) <= 0
        /\ TimeOrder(dvks[i], dvks[j]) = 0 => TitleOrder(dvks[i], dvks[j]) <= 0

\* a grouped sort by time: within one artist, an earlier time before a
\* smaller title, and two records of one time ordered by their titles
C11_Witness ==
  /\ last.op = "sort"
  /\ last.mode = "t"
  /\ last.group
  /\ \E i, j \in 1..Len(dvks) :
       /\ i < j
       /\ ArtistOrder(dvks[i], dvks[j]) = 0
       /\ TimeOrder(dvks[i], dvks[j]) < 0
       /\ TitleOrder(dvks[i], dvks[j]) > 0
  /\ \E i, j \in 1..Len(dvks) :
       /\ i < j
       /\ ArtistOrder(dvks[i], dvks[j]) = 0
       /\ TimeOrder(dvks[i], dvks[j]) = 0
       /\ TitleOrder(dvks[i], dvks[j]) < 0

\* C12: after sort_dvks in alphabetic mode the titles do not decrease
\* under natural-alphanumeric comparison and records whose titles tie are
\* ordered by their times; with grouping, the same among records of one
\* artist string
C12_TitleOrder ==
  (last.op = "sort" /\ last.mode = "a") =>
    \A i, j \in 1..Len(dvks) :
      (i < j /\ (~last.group \/ ArtistOrder(dvks[i], dvks[j]) = 0)) =>
        /\ TitleOrder(dvks[i], dvks[j]) <= 0
        /\ TitleOrder(dvks[i], dvks[j]) = 0 => TimeOrder(dvks[i], dvks[j]) <= 0

\* an ungrouped alphabetic sort: "a2" before "a10", a smaller title
\* before an earlier time, and two records of one title ordered by time
C12_Witness ==
  /\ last.op = "sort"
  /\ last.mode = "a"
  /\ ~last.group
  /\ \E i, j \in 1..Len(dvks) :
       i < j /\ dvks[i].title = <<"a", "2">> /\ dvks[j].title = <<"a", "1", "0">>
  /\ \E i, j \in 1..Len(dvks) :
       i < j /\ TitleOrder(dvks[i], dvks[j]) < 0 /\ TimeOrder(dvks[i], dvks[j]) > 0
  /\ \E i, j \in 1..Len(dvks) :
       i < j /\ TitleOrder(dvks[i], dvks[j]) = 0 /\ TimeOrder(dvks[i], dvks[j]) < 0

\* the last call was get_directories
AfterGetDirectories == last.op = "get_directories"

\* the directories a list of paths names, resolved
ResolvedDirs(lst) == { Resolve(lst[i]).dir : i \in 1..Len(lst) }

IsPrefix(p, q) == Len(p) <= Len(q) /\ SubSeq(q, 1, Len(p)) = p

\* the existing directories reachable from the roots, the roots included
Reachable(directory_strs) ==
  { d \in Dirs :
      \E k \in 1..Len(directory_strs.list) :
        /\ directory_strs.list[k].tag = "path"
        /\ Resolve(directory_strs.list[k].parts).ok
        /\ IsPrefix(Resolve(directory_strs.list[k].parts).dir, d) }

\* the files directly in a directory whose names end with ".dvk"
RecordFiles(d) ==
  { n \in OtherFiles(d) \cup { SlotName[s] : s \in { t \in Slots : SlotDir[t] = d } } :
      Suffix(n) = ".dvk" }

\* C13: get_directories returns a directory reachable from a root if and
\* only if the directory directly contains a file whose name ends with
\* ".dvk"
C13_ExactlyTheRecordDirectories ==
  AfterGetDirectories =>
    ResolvedDirs(ret) = { d \in Reachable(last.roots) : RecordFiles(d) # {} }

\* C14: the list get_directories returns names no directory twice, two
\* paths that resolve to one directory being the same, and is in
\* ascending order
C14_NoDirectoryTwiceAscending ==
  AfterGetDirectories =>
    \A i, j \in 1..Len(ret) :
      i < j => /\ Resolve(ret[i]).dir # Resolve(ret[j]).dir
               /\ PathCmp(ret[i], ret[j]) < 0

\* a list of roots without its None entries, its empty strings and its
\* paths that name no directory
UsableRoots(list) ==
  SelectSeq(list, LAMBDA e : e.tag = "path" /\ Resolve(e.parts).ok)

\* C16: get_directories returns the empty list for None and for an empty
\* list of roots, and for any other list what it returns for the list
\* without the None entries, the empty strings and the roots that do not
\* exist: these are skipped and the other roots are scanned
C16_DegenerateRootsSkipped ==
  AfterGetDirectories =>
    /\ (last.roots.none \/ last.roots.list = <<>>) => ret = <<>>
    /\ ret = get_directories([none |-> FALSE, list |-> UsableRoots(last.roots.list)])
    /\ \A k \in 1..Len(last.roots.list) :
         (/\ last.roots.list[k].tag = "path"
          /\ Resolve(last.roots.list[k].parts).ok
          /\ RecordFiles(Resolve(last.roots.list[k].parts).dir) # {}) =>
           \E i \in 1..Len(ret) : ret[i] = last.roots.list[k].parts

\* a root that does not exist in front of one that holds record files,
\* which is scanned all the same
C16_Witness ==
  /\ AfterGetDirectories
  /\ Len(last.roots.list) >= 2
  /\ last.roots.list[1] = PathEntry(<<"missing">>)
  /\ last.roots.list[2] = PathEntry(<<"a">>)
  /\ \E i \in 1..Len(ret) : ret[i] = <<"a">>
  /\ \E i \in 1..Len(ret) : ret[i] = <<"a", "sub">>

\* the record file a source path names: its directory resolved, and its
\* file name
RecordFile(p) == Append(Resolve(SubSeq(p, 1, Len(p) - 1)).dir, p[Len(p)])

\* C15: after every load_dvks call no two of the records held come from
\* one record file
C15_NoRecordFileTwice ==
  last.op = "load" =>
    \A i, j \in 1..Len(dvks) :
      i < j => RecordFile(dvks[i].file) # RecordFile(dvks[j].file)

\* two records tie on every key of the chain of a mode: the artist
\* string when grouping, the mode's key, the title and the time
TieOnAllKeys(mode, group, x, y) ==
  /\ group => ArtistOrder(x, y) = 0
  /\ mode = "r" => x.rating = y.rating
  /\ mode = "v" => x.views = y.views
  /\ TitleOrder(x, y) = 0
  /\ TimeOrder(x, y) = 0

\* C17: each comparator, grouped or not, is a total preorder:
\* compare(x, y) = -compare(y, x), it is transitive, and it is 0 only
\* for records that tie on every key of its chain
C17_TotalPreorder ==
  last.op = "compare" =>
    \A i, j, k \in 1..Len(dvks) :
      /\ ret[i][j] \in { -1, 0, 1 }
      /\ ret[i][j] = 0 - ret[j][i]
      /\ (ret[i][j] <= 0 /\ ret[j][k] <= 0) => ret[i][k] <= 0
      /\ ret[i][j] = 0 => TieOnAllKeys(last.mode, last.group, dvks[i], dvks[j])

\* the grouped views comparator on three records: two that tie although
\* their titles and ratings differ ("a2" and "a02"), and a third one
\* that comes after both
C17_Witness ==
  /\ last.op = "compare"
  /\ last.mode = "v"
  /\ last.group
  /\ \E i, j, k \in 1..Len(dvks) :
       /\ ret[i][j] = 0
       /\ dvks[i].title # dvks[j].title
       /\ dvks[i].rating # dvks[j].rating
       /\ ret[i][k] < 0
       /\ ret[j][k] < 0
       /\ ret[k][i] > 0

\* C18 as stated: a load_dvks call that follows a sort, on the
\* directories loaded before, presents the records in the order the sort
\* left
C18_ReloadKeepsSortedOrder ==
  [][ (last.op = "sort" /\ last'.op = "load" /\ paths' = paths) => dvks' = dvks ]_vars

\* C18 amended: a load_dvks call that follows a sort presents the
\* records in fresh load order, directory by directory, with sorted the
\* identity; nothing of the sorted order is left
C18_ReloadGivesLoadOrder ==
  [][ (last.op = "sort" /\ last'.op = "load") =>
        /\ dvks' = ConcatReads(fs, paths')
        /\ \A i \in 1..Len(dvks') :
             get_dvk_sorted(dvks', sorted', i - 1) = ConcatReads(fs, paths')[i] ]_vars

\* a load after a sort call, of three or more records whose load order
\* is the sorted order of no mode
C18_Witness ==
  /\ last.op = "load"
  /\ group_artists # <<>>
  /\ Len(dvks) >= 3
  /\ dvks = ConcatReads(fs, paths)
  /\ \A t \in SortTypes \ { None }, g \in BOOLEAN :
       sort_dvks(dvks, sorted, t, g) # dvks

\* C19: sort_dvks leaves sorted as it is; in every reachable state sorted
\* is the identity and get_dvk_sorted(i) is get_dvk_direct(i) for every i
C19_SortLeavesIndex ==
  /\ [](/\ \A i \in 1..Len(sorted) : sorted[i] = i - 1
        /\ \A i \in Indexes :
             get_dvk_sorted(dvks, sorted, i) = get_dvk_direct(dvks, sorted, i))
  /\ [][ last'.op = "sort" => sorted' = sorted ]_vars

\* a sort that moved three or more records: sorted is still the
\* identity and both accessors give the record at the position asked for
C19_Witness ==
  /\ last.op = "sort"
  /\ last.mode # None
  /\ Reordered
  /\ Len(dvks) >= 3
  /\ \A i \in 1..Len(dvks) :
       /\ sorted[i] = i - 1
       /\ get_dvk_sorted(dvks, sorted, i - 1) = dvks[i]
       /\ get_dvk_direct(dvks, sorted, i - 1) = dvks[i]

\* the number of times a record occurs in a list
Count(x, d) == Cardinality({ i \in 1..Len(d) : d[i] = x })

Records(d) == { d[i] : i \in 1..Len(d) }

\* C20: sort_dvks leaves the multiset of the records and get_size() as
\* they were, in every mode and with both grouping settings
C20_SortPermutes ==
  [][ last'.op = "sort" =>
        /\ \A x \in Records(dvks) \cup Records(dvks') : Count(x, dvks') = Count(x, dvks)
        /\ get_size(sorted') = get_size(sorted) ]_vars

\* a sort that moved six records, two of which the comparator does not
\* tell apart, and kept each of the records loaded
C20_Witness ==
  /\ last.op = "sort"
  /\ last.mode # None
  /\ Reordered
  /\ Len(dvks) = 6
  /\ get_size(sorted) = 6
  /\ \E i, j \in 1..Len(dvks) :
       i < j /\ comparator(last.mode, last.group, dvks[i], dvks[j]) = 0
  /\ \A x \in Records(ConcatReads(fs, paths)) :
       Count(x, dvks) = Count(x, ConcatReads(fs, paths))

\* what same_ids returns for a handler that has just loaded the
\* directories in paths
FreshSameIds ==
  same_ids_paths(sort_dvks(ConcatReads(fs, paths), sorted, "a", TRUE), sorted)

\* C21: the list same_ids returns for a handler depends on the records
\* it holds alone: it is the list returned for a handler that has just
\* loaded the same records, whatever sort_dvks calls came before
C21_SameIdsIgnoresHistory ==
  last.op = "same_ids" => ret = FreshSameIds

\* C22: initialize_driver keeps the first of Firefox, Chrome and Edge
\* that starts and driver is None exactly when none starts; after it,
\* get_page returns a page or None and raises nothing, None for a None
\* or empty url, for a driver error and when there is no driver; and
\* close_driver raises nothing
C22_DriverFallbackNeverRaises ==
  /\ last.op = "initialize_driver" =>
       /\ driver = None <=> last.can_start = {}
       /\ \A i \in 1..Len(Browsers) :
            driver = Browsers[i] <=>
              /\ Browsers[i] \in last.can_start
              /\ \A j \in 1..(i - 1) : Browsers[j] \notin last.can_start
  /\ last.op = "get_page" =>
       /\ ret = ReturnsNone \/ ret = ReturnsPage(last.url)
       /\ (last.url = None \/ last.url = "" \/ ~last.loads \/ driver = None) =>
            ret = ReturnsNone
  /\ last.op = "close_driver" => ret = ReturnsNone

\* the publication hour of a record, 0..23
HourOf(dvk) == CHOOSE h \in 0..23 : TwoDigits(h) = SubSeq(dvk.time, 12, 13)

\* the hour shown in a time text, and the pieces between the minute and
\* the closing tag
ShownHour(text) == SubSeq(text, 12, 13)

ShownSuffix(text) == SubSeq(text, 17, Len(text) - 1)

\* C23: for every hour h in 0..23 get_time_string shows, on the
\* twelve-hour clock, the hour ((h + 11) mod 12) + 1 with AM when h < 12
\* and PM otherwise, and on the 24-hour clock h and no suffix; for no
\* record and for the time 0000/00/00|00:00 it returns "Unknown
\* Publication Date"
C23_ClockOfTimeString ==
  last.op = "get_time_string" =>
    IF last.dvk.none \/ last.dvk.time = TimeUnknown
    THEN ret = << "Unknown Publication Date" >>
    ELSE /\ Len(ret) >= 17
         /\ ret[1] = "Posted <b>"
         /\ ret[Len(ret)] = "</b>"
         /\ last.twelve_hour =>
              /\ ShownHour(ret) = TwoDigits(((HourOf(last.dvk) + 11) % 12) + 1)
              /\ ShownSuffix(ret) = IF HourOf(last.dvk) < 12 THEN << " AM" >>
                                    ELSE << " PM" >>
         /\ ~last.twelve_hour =>
              /\ ShownHour(ret) = TwoDigits(HourOf(last.dvk))
              /\ ShownSuffix(ret) = <<>>

\* noon on the twelve-hour clock: 12 PM
C23_Witness ==
  /\ last.op = "get_time_string"
  /\ last.twelve_hour
  /\ ~last.dvk.none
  /\ last.dvk.time = MakeTime(12, 5, 12, 59)
  /\ ret = << "Posted <b>", "0", "5", " ", "Dec", " ", "2", "0", "2", "0", " - ",
              "1", "2", ":", "5", "9", " PM", "</b>" >>

\* the links of an HTML text in the order they stand in: the text and
\* the target of every href
RECURSIVE LinksFrom(_, _)
LinksFrom(text, i) ==
  IF i + 5 > Len(text) THEN <<>>
  ELSE (IF text[i] = "href" THEN << << text[i + 5], text[i + 2] >> >> ELSE <<>>)
       \o LinksFrom(text, i + 1)

\* the URLs of a record that are not None, in the order page, direct,
\* secondary, each with the text of its link
SetUrls(dvk) ==
  LET IsSet(link) == link[2] # None
  IN  SelectSeq(<< << "Page URL", dvk.page_url >>, << "Direct URL", dvk.direct_url >>,
                   << "Secondary URL", dvk.secondary_url >> >>, IsSet)

GridClasses == << "dvk_one_grid", "dvk_two_grid", "dvk_three_grid" >>

\* C24: get_page_link_html returns one link for each of the page, direct
\* and secondary URL that is not None, in that order, inside a container
\* whose grid class names the number of links (one, two, three); it
\* returns the empty string for no record and for a record with none of
\* the three URLs
C24_OneLinkPerUrl ==
  last.op = "get_page_link_html" =>
    IF last.dvk.none \/ SetUrls(last.dvk) = <<>>
    THEN ret = <<>>
    ELSE /\ Len(ret) >= 13
         /\ SubSeq(ret, 1, 2) = << "<", "div" >>
         /\ SubSeq(ret, 8, 13)
              = << " ", "class", "=\"", GridClasses[Len(SetUrls(last.dvk))], "\"", ">" >>
         /\ SubSeq(ret, Len(ret) - 2, Len(ret)) = << "</", "div", ">" >>
         /\ LinksFrom(ret, 1) = SetUrls(last.dvk)

\* no page URL, an empty direct URL and a secondary URL: two links
C24_Witness ==
  /\ last.op = "get_page_link_html"
  /\ ~last.dvk.none
  /\ last.dvk.page_url = None
  /\ last.dvk.direct_url = ""
  /\ last.dvk.secondary_url = "http://secondary"
  /\ LinksFrom(ret, 1) = << << "Direct URL", "" >>, << "Secondary URL", "http://secondary" >> >>
  /\ ret[11] = "dvk_two_grid"

====
